---- MODULE Spec2Model ----
(***************************************************************************)
(* Model of the Chart class (OHLC bar chart with wheel zoom and drag pan). *)
(*                                                                         *)
(* Numbers.  The program computes with JavaScript numbers.  They are       *)
(* modelled as exact rationals <<n, d>> in lowest terms with d > 0,        *)
(* extended with the three special values of the number type:              *)
(* <<1, 0>> is Infinity, <<-1, 0>> is -Infinity and <<0, 0>> is NaN.       *)
(* Rounding of the binary representation is not modelled.                  *)
(***************************************************************************)
EXTENDS Integers, Sequences, FiniteSets, TLC

\* ------------------------------------------------------------------------
\* Bounds of the model
\* ------------------------------------------------------------------------

\* Largest number of render passes (wheel events, drag moves, host renders)
\* in one behaviour.
MaxRenders == 3

\* Longest bar sequence of the rendering specification.
MaxBars == 3

\* ------------------------------------------------------------------------
\* Number arithmetic
\* ------------------------------------------------------------------------

Abs(n) == IF n < 0 THEN -n ELSE n

Sgn(n) == IF n > 0 THEN 1 ELSE IF n < 0 THEN -1 ELSE 0

RECURSIVE GCD(_, _)
GCD(a, b) == IF b = 0 THEN a ELSE GCD(b, a % b)

\* The number n/d: lowest terms, positive denominator; d = 0 gives
\* Infinity, -Infinity or NaN by the sign of n.
Norm(n, d) ==
    IF d = 0 THEN <<Sgn(n), 0>>
    ELSE LET g == GCD(Abs(n), Abs(d))
             s == Sgn(d)
         IN  <<(s * n) \div g, (s * d) \div g>>

R(n) == <<n, 1>>

NaN == <<0, 0>>

Infinity == <<1, 0>>

IsNaN(a) == a = NaN

IsFinite(a) == a[2] # 0

Neg(a) == <<-a[1], a[2]>>

Add(a, b) ==
    IF a[2] = 0 /\ b[2] = 0
    THEN (IF a = b THEN a ELSE NaN)
    ELSE LET g == GCD(a[2], b[2])
             k == IF g = 0 THEN 1 ELSE g
         IN  Norm(a[1] * (b[2] \div k) + b[1] * (a[2] \div k),
                  (a[2] \div k) * b[2])

Sub(a, b) == Add(a, Neg(b))

Mul(a, b) ==
    LET g1 == GCD(Abs(a[1]), b[2])
        g2 == GCD(Abs(b[1]), a[2])
        k1 == IF g1 = 0 THEN 1 ELSE g1
        k2 == IF g2 = 0 THEN 1 ELSE g2
    IN  Norm((a[1] \div k1) * (b[1] \div k2), (a[2] \div k2) * (b[2] \div k1))

\* 1/a; 1/0 is Infinity (the zero of the model is +0).
Inv(a) == IF a[1] < 0 THEN <<-a[2], -a[1]>> ELSE <<a[2], a[1]>>

Div(a, b) == Mul(a, Inv(b))

\* a < b; false when either side is NaN.
Lt(a, b) ==
    /\ ~IsNaN(a)
    /\ ~IsNaN(b)
    /\ a # b
    /\ IF a[2] = 0 THEN a[1] < 0
       ELSE IF b[2] = 0 THEN b[1] > 0
       ELSE a[1] * b[2] < b[1] * a[2]

Le(a, b) == ~IsNaN(a) /\ ~IsNaN(b) /\ (a = b \/ Lt(a, b))

\* Math.max of two numbers: NaN when either is NaN.
MathMax(a, b) ==
    IF IsNaN(a) \/ IsNaN(b) THEN NaN ELSE IF Lt(a, b) THEN b ELSE a

\* Math.min of two numbers.
MathMin(a, b) ==
    IF IsNaN(a) \/ IsNaN(b) THEN NaN ELSE IF Lt(b, a) THEN b ELSE a

\* Math.sign.
MathSign(a) == IF IsNaN(a) THEN NaN ELSE R(Sgn(a[1]))

\* ------------------------------------------------------------------------
\* Environment: the canvas, the page and the events the host delivers
\* ------------------------------------------------------------------------

\* canvas.width and canvas.height as the host sets them.
CanvasWidth == 800

CanvasHeight == 400

\* Position of the canvas in the client area (getBoundingClientRect): a
\* canvas at the top of a page whose body has the default 8px margin.
Rects == {<<8, 8>>}

\* Pointer positions <<clientX, clientY>>.
Pointers == {<<108, 58>>, <<408, 308>>}

\* Wheel deltas (event.deltaY).
DeltaYs == {-120, 0, 1, 120}

\* A bar of the data feed (IBar); prices are numbers.
Bar(t, o, h, l, c) ==
    [Time |-> t, Open |-> o, High |-> h, Low |-> l, Close |-> c,
     TickVolume |-> 1]

\* Midnight (UTC) of two consecutive days, in unix seconds.
Day1 == 19676 * 86400

Day2 == 19677 * 86400

\* The bar sequence of the interactive specification: three bars,
\* two on the first day and one on the next.
SampleBars ==
    << Bar(Day1, R(10), R(12), R(9), R(11)),
       Bar(Day1 + 43200, R(11), R(11), R(8), R(9)),
       Bar(Day2, R(9), R(10), R(8), <<19, 2>>) >>

\* The bars the rendering specification builds its sequences from: the
\* three above, a flat bar late on the first day, a bar that closes above
\* its High and a bar whose High is below its Low.
BarChoices ==
    { SampleBars[1], SampleBars[2], SampleBars[3],
      Bar(Day1 + 82800, R(10), R(10), R(10), R(10)),
      Bar(Day2, R(9), R(10), R(8), R(13)),
      Bar(Day1, R(10), R(8), R(12), R(10)) }

\* The bar sequences of the rendering specification, the empty one included.
BarSeqs == UNION { [1..n -> BarChoices] : n \in 0..MaxBars }

\* Offsets from UTC of the viewer's zone, in seconds: UTC and UTC+3.
Zones == {0, 10800}

\* Scales of the rendering specification: the scale of construction and
\* the scale after two wheel events of positive delta.
Scales == {R(1), <<121, 100>>}

VARIABLES
    data,          \* this.data: the bar sequence
    tz,            \* the viewer's offset from UTC, in seconds
    rect,          \* <<left, top>> of the canvas in the client area
    scale,         \* this.scale
    offsetX,       \* this.offsetX
    offsetY,       \* this.offsetY
    isDragging,    \* this.isDragging
    dragStartX,    \* this.dragStartX
    dragStartY,    \* this.dragStartY
    minPrice,      \* this.minPrice
    maxPrice,      \* this.maxPrice
    ctxScale,      \* the factor of the context's current transform
    calls,         \* the draw calls of the last render pass, in order
    renderCount,   \* number of render passes so far
    ev,            \* the handler or public method that ran last
    lastButton,    \* the last of mousedown / mouseup / mouseleave handled
    dragOrigin     \* the transform and the pointer at the last mousedown

vars ==
    <<data, tz, rect, scale, offsetX, offsetY, isDragging, dragStartX,
      dragStartY, minPrice, maxPrice, ctxScale, calls, renderCount, ev,
      lastButton, dragOrigin>>

\* ------------------------------------------------------------------------
\* Construction
\* ------------------------------------------------------------------------

RECURSIVE MinOf(_, _, _)
MinOf(s, i, acc) ==
    IF i > Len(s) THEN acc ELSE MinOf(s, i + 1, MathMin(acc, s[i]))

RECURSIVE MaxOf(_, _, _)
MaxOf(s, i, acc) ==
    IF i > Len(s) THEN acc ELSE MaxOf(s, i + 1, MathMax(acc, s[i]))

\* The range of the closing prices.
calculatePriceRange_OfCloses(bars) ==
    [minPrice |-> MinOf([i \in 1..Len(bars) |-> bars[i].Close], 1, Infinity),
     maxPrice |-> MaxOf([i \in 1..Len(bars) |-> bars[i].Close], 1,
                        Neg(Infinity))]

\* calculatePriceRange: Math.min over no argument is Infinity, Math.max
\* over no argument is -Infinity.
calculatePriceRange(bars) ==
    [minPrice |-> MinOf([i \in 1..Len(bars) |-> bars[i].Low], 1, Infinity),
     maxPrice |-> MaxOf([i \in 1..Len(bars) |-> bars[i].High], 1, Neg(Infinity))]

\* ------------------------------------------------------------------------
\* Rendering
\* ------------------------------------------------------------------------

\* getDateFromBar: the calendar date of a unix time in the viewer's zone,
\* <<day, month, year>> standing for the string "day.month.year".
getDateFromBar(time, zone) ==
    LET days == (time + zone) \div 86400
        z    == days + 719468
        era  == z \div 146097
        doe  == z - era * 146097
        yoe  == (doe - doe \div 1460 + doe \div 36524 - doe \div 146096) \div 365
        doy  == doe - (365 * yoe + yoe \div 4 - yoe \div 100)
        mp   == (5 * doy + 2) \div 153
        d    == doy - (153 * mp + 2) \div 5 + 1
        m    == IF mp < 10 THEN mp + 3 ELSE mp - 9
        y    == yoe + era * 400 + (IF m <= 2 THEN 1 ELSE 0)
    IN  <<d, m, y>>

\* One call on the drawing context, with the arguments it was given.
DrawCall(op, x, y, w, h, style, text) ==
    [op |-> op, x |-> x, y |-> y, w |-> w, h |-> h, style |-> style,
     text |-> text]

\* The chart as the render pass reads it.
ChartView(bars, sc, ox, oy, mn, mx, zone) ==
    [data |-> bars, scale |-> sc, offsetX |-> ox, offsetY |-> oy,
     minPrice |-> mn, maxPrice |-> mx, tz |-> zone]

\* drawBars, lines 48-53: the values computed once per pass.
BarWidth(c) == Div(R(CanvasWidth), R(Len(c.data)))

ScaledWidth(c) == Mul(R(CanvasWidth), c.scale)

ScaledHeight(c) == Mul(R(CanvasHeight), c.scale)

EffOffsetX(c) ==
    Sub(c.offsetX, Div(Sub(ScaledWidth(c), R(CanvasWidth)), R(2)))

EffOffsetY(c) ==
    Sub(c.offsetY, Div(Sub(ScaledHeight(c), R(CanvasHeight)), R(2)))

\* drawBars, lines 58-60 and 68: the geometry of the bar at index
\* (0-based, as in the program).
BarX(c, index) ==
    Sub(Mul(Div(Mul(R(index), R(CanvasWidth)), R(Len(c.data))), c.scale),
        EffOffsetX(c))

\* The vertical position before the offset is subtracted.
BarYUnshifted(c, bar) ==
    Sub(ScaledHeight(c),
        Mul(Div(Sub(bar.Close, c.minPrice), Sub(c.maxPrice, c.minPrice)),
            ScaledHeight(c)))

BarY(c, bar) == Sub(BarYUnshifted(c, bar), EffOffsetY(c))

BarHeight(c, bar) ==
    Mul(Div(Sub(bar.High, bar.Low), Sub(c.maxPrice, c.minPrice)),
        ScaledHeight(c))

\* The up colour for a bar that closes where it opened, too.
FillStyle_UpOnTie(bar) == IF Le(bar.Open, bar.Close) THEN "green" ELSE "red"

\* drawBars, line 62.
FillStyle(bar) == IF Lt(bar.Open, bar.Close) THEN "green" ELSE "red"

LabelX(c, index) == Add(BarX(c, index), Div(BarWidth(c), R(2)))

\* drawDateLabel.
drawDateLabel(date, x, y) ==
    DrawCall("fillText", x, y, R(0), R(0), "black", date)

\* A label under every bar.
NeedsLabel_Always(currentDate, previousDate) == TRUE

\* Whether the bar's date differs from previousDate (<<>> is null).
NeedsLabel(currentDate, previousDate) == currentDate # previousDate

\* The body of the forEach of drawBars from index on.
RECURSIVE forEachBar(_, _, _)
forEachBar(c, index, previousDate) ==
    IF index >= Len(c.data) THEN <<>>
    ELSE LET bar         == c.data[index + 1]
             currentDate == getDateFromBar(bar.Time, c.tz)
             labelled    == NeedsLabel(currentDate, previousDate)
             fill        == DrawCall("fillRect", BarX(c, index), BarY(c, bar),
                                     Mul(BarWidth(c), c.scale),
                                     BarHeight(c, bar), FillStyle(bar), <<>>)
             label       == drawDateLabel(currentDate, LabelX(c, index),
                                          R(CanvasHeight - 5))
         IN  (IF labelled THEN <<fill, label>> ELSE <<fill>>)
             \o forEachBar(c, index + 1,
                           IF labelled THEN currentDate ELSE previousDate)

\* A pass that writes a notice when there is no bar.
drawBars_EmptyNotice(c) ==
    IF Len(c.data) = 0
    THEN <<DrawCall("fillText", Div(R(CanvasWidth), R(2)),
                    Div(R(CanvasHeight), R(2)), R(0), R(0), "black", <<>>)>>
    ELSE forEachBar(c, 0, <<>>)

drawBars(c) == forEachBar(c, 0, <<>>)

\* drawChart: clear, border, bars.
drawChart(c) ==
    << DrawCall("clearRect", R(0), R(0), R(CanvasWidth), R(CanvasHeight),
                "", <<>>),
       DrawCall("strokeRect", R(0), R(0), R(CanvasWidth), R(CanvasHeight),
                "#000", <<>>) >>
    \o drawBars(c)

\* ------------------------------------------------------------------------
\* The chart after construction
\* ------------------------------------------------------------------------

Event(type, x, y, deltaY) ==
    [type |-> type, x |-> x, y |-> y, deltaY |-> deltaY]

\* No pan is under way: no mousedown yet, or a wheel, mouseup or mouseleave
\* since the last one.
NoOrigin ==
    [live |-> FALSE, x |-> 0, y |-> 0, toX |-> 0, toY |-> 0, moves |-> 0,
     offsetX |-> R(0), offsetY |-> R(0), scale |-> R(1)]

\* The field initialisers and the constructor, for the bars, the zone of
\* the viewer and the place of the canvas on the page.
NewChart(bars, zone, r) ==
    /\ data = bars
    /\ tz = zone
    /\ rect = r
    /\ scale = R(1)
    /\ offsetX = R(0)
    /\ offsetY = R(0)
    /\ isDragging = FALSE
    /\ dragStartX = R(0)
    /\ dragStartY = R(0)
    /\ minPrice = calculatePriceRange(bars).minPrice
    /\ maxPrice = calculatePriceRange(bars).maxPrice
    /\ ctxScale = R(1)
    /\ calls = <<>>
    /\ renderCount = 0
    /\ ev = Event("new", 0, 0, 0)
    /\ lastButton = "none"
    /\ dragOrigin = NoOrigin

Init == \E r \in Rects : NewChart(SampleBars, 0, r)

\* ------------------------------------------------------------------------
\* Handlers
\* ------------------------------------------------------------------------

\* A render pass that runs before the handler's assignments.
Render_BeforeUpdate ==
    /\ calls' = drawChart(ChartView(data, scale, offsetX, offsetY,
                                    minPrice, maxPrice, tz))
    /\ renderCount' = renderCount + 1

\* A render pass over the chart as it is after the handler's assignments.
Render ==
    /\ calls' = drawChart(ChartView(data, scale', offsetX', offsetY',
                                    minPrice, maxPrice, tz))
    /\ renderCount' = renderCount + 1

\* The larger factor for a delta of zero, too.
ZoomFactor_ZeroZoomsOut(deltaY) ==
    IF Le(R(0), MathSign(R(deltaY))) THEN <<11, 10>> ELSE <<9, 10>>

\* A factor that grows with the size of the delta.
ZoomFactor_Magnitude(deltaY) == Add(R(1), Norm(deltaY, 1200))

\* handleMouseWheel, lines 86-87.
ZoomFactor(deltaY) ==
    IF Lt(R(0), MathSign(R(deltaY))) THEN <<11, 10>> ELSE <<9, 10>>

\* The product without the floor.
ZoomedScale_NoFloor(previousScale, zoomFactor) ==
    Mul(previousScale, zoomFactor)

\* handleMouseWheel, lines 95-98.
ZoomedScale(previousScale, zoomFactor) ==
    MathMax(R(1), Mul(previousScale, zoomFactor))

\* A context scaled by every wheel event, clamped or not.
CtxAfterZoom_Always(ctx, newScale, zoomFactor) == Mul(ctx, zoomFactor)

\* handleMouseWheel, lines 100-102.
CtxAfterZoom(ctx, newScale, zoomFactor) ==
    IF Lt(R(1), newScale) THEN Mul(ctx, zoomFactor) ELSE ctx

\* handleMouseWheel, lines 104-105.
ZoomedOffset(pointer, offset, newScale, previousScale) ==
    Sub(pointer, Mul(Sub(pointer, offset), Div(newScale, previousScale)))

handleMouseWheel(clientX, clientY, deltaY) ==
    LET zoomFactor == ZoomFactor(deltaY)
        pointerX   == R(clientX - rect[1])
        pointerY   == R(clientY - rect[2])
        newScale   == ZoomedScale(scale, zoomFactor)
    IN  /\ renderCount < MaxRenders
        /\ scale' = newScale
        /\ ctxScale' = CtxAfterZoom(ctxScale, newScale, zoomFactor)
        /\ offsetX' = ZoomedOffset(pointerX, offsetX, newScale, scale)
        /\ offsetY' = ZoomedOffset(pointerY, offsetY, newScale, scale)
        /\ Render
        /\ ev' = Event("wheel", clientX, clientY, deltaY)
        /\ dragOrigin' = NoOrigin
        /\ UNCHANGED <<data, tz, rect, isDragging, dragStartX, dragStartY,
                       minPrice, maxPrice, lastButton>>

\* A mousedown that toggles the flag.
DraggingAfterDown_Toggle(dragging) == ~dragging

\* The flag after handleMouseDown.
DraggingAfterDown(dragging) == TRUE

\* A mousedown that also pans by the distance from the old anchor.
handleMouseDown_Pans(clientX, clientY) ==
    /\ isDragging' = DraggingAfterDown(isDragging)
    /\ offsetX' = Add(offsetX, Sub(R(clientX), dragStartX))
    /\ offsetY' = Add(offsetY, Sub(R(clientY), dragStartY))
    /\ dragStartX' = R(clientX)
    /\ dragStartY' = R(clientY)
    /\ ev' = Event("mousedown", clientX, clientY, 0)
    /\ lastButton' = "mousedown"
    /\ dragOrigin' = [live |-> TRUE, x |-> clientX, y |-> clientY,
                      toX |-> clientX, toY |-> clientY, moves |-> 0,
                      offsetX |-> offsetX', offsetY |-> offsetY',
                      scale |-> scale]
    /\ UNCHANGED <<data, tz, rect, scale, minPrice, maxPrice, ctxScale,
                   calls, renderCount>>

handleMouseDown(clientX, clientY) ==
    /\ isDragging' = DraggingAfterDown(isDragging)
    /\ dragStartX' = R(clientX)
    /\ dragStartY' = R(clientY)
    /\ ev' = Event("mousedown", clientX, clientY, 0)
    /\ lastButton' = "mousedown"
    /\ dragOrigin' = [live |-> TRUE, x |-> clientX, y |-> clientY,
                      toX |-> clientX, toY |-> clientY, moves |-> 0,
                      offsetX |-> offsetX, offsetY |-> offsetY,
                      scale |-> scale]
    /\ UNCHANGED <<data, tz, rect, scale, offsetX, offsetY, minPrice,
                   maxPrice, ctxScale, calls, renderCount>>

\* An offset that moves against the pointer.
PannedOffset_Reversed(offset, dragStart, pointer) ==
    Sub(offset, Sub(pointer, dragStart))

\* handleMouseMove, lines 118-123: the offset and the anchor after a move
\* to pointer, per axis.
PannedOffset(offset, dragStart, pointer) ==
    Add(offset, Sub(pointer, dragStart))

\* An anchor left where the drag began.
MovedAnchor_Stale(dragStart, pointer) == dragStart

MovedAnchor(dragStart, pointer) == pointer

\* A move that pans whether or not a drag is under way.
ShouldPan_Always(dragging) == TRUE

\* handleMouseMove, line 117.
ShouldPan(dragging) == dragging

handleMouseMove(clientX, clientY) ==
    /\ ev' = Event("mousemove", clientX, clientY, 0)
    /\ dragOrigin' = IF dragOrigin.live
                     THEN [dragOrigin EXCEPT !.toX = clientX, !.toY = clientY,
                                             !.moves = @ + 1]
                     ELSE dragOrigin
    /\ IF ShouldPan(isDragging)
       THEN /\ renderCount < MaxRenders
            /\ offsetX' = PannedOffset(offsetX, dragStartX, R(clientX))
            /\ offsetY' = PannedOffset(offsetY, dragStartY, R(clientY))
            /\ dragStartX' = MovedAnchor(dragStartX, R(clientX))
            /\ dragStartY' = MovedAnchor(dragStartY, R(clientY))
            /\ scale' = scale
            /\ Render
       ELSE UNCHANGED <<scale, offsetX, offsetY, dragStartX, dragStartY,
                        calls, renderCount>>
    /\ UNCHANGED <<data, tz, rect, isDragging, minPrice, maxPrice, ctxScale,
                   lastButton>>

\* A mouseleave that leaves the flag as it is.
DraggingAfterLeave_Stuck(dragging) == dragging

\* The flag after handleMouseUp and after handleMouseLeave.
DraggingAfterUp(dragging) == FALSE

DraggingAfterLeave(dragging) == FALSE

handleMouseUp ==
    /\ isDragging' = DraggingAfterUp(isDragging)
    /\ ev' = Event("mouseup", 0, 0, 0)
    /\ lastButton' = "mouseup"
    /\ dragOrigin' = NoOrigin
    /\ UNCHANGED <<data, tz, rect, scale, offsetX, offsetY, dragStartX,
                   dragStartY, minPrice, maxPrice, ctxScale, calls,
                   renderCount>>

handleMouseLeave ==
    /\ isDragging' = DraggingAfterLeave(isDragging)
    /\ ev' = Event("mouseleave", 0, 0, 0)
    /\ lastButton' = "mouseleave"
    /\ dragOrigin' = NoOrigin
    /\ UNCHANGED <<data, tz, rect, scale, offsetX, offsetY, dragStartX,
                   dragStartY, minPrice, maxPrice, ctxScale, calls,
                   renderCount>>

\* The host calls the public drawChart.
hostDrawChart ==
    /\ renderCount < MaxRenders
    /\ ev' = Event("drawChart", 0, 0, 0)
    /\ UNCHANGED <<scale, offsetX, offsetY>>
    /\ Render
    /\ UNCHANGED <<data, tz, rect, isDragging, dragStartX, dragStartY,
                   minPrice, maxPrice, ctxScale, lastButton, dragOrigin>>

Wheel ==
    \E p \in Pointers, d \in DeltaYs : handleMouseWheel(p[1], p[2], d)

MouseDown == \E p \in Pointers : handleMouseDown(p[1], p[2])

MouseMove == \E p \in Pointers : handleMouseMove(p[1], p[2])

MouseUp == handleMouseUp

MouseLeave == handleMouseLeave

Next ==
    \/ Wheel
    \/ MouseDown
    \/ MouseMove
    \/ MouseUp
    \/ MouseLeave
    \/ hostDrawChart

Spec == Init /\ [][Next]_vars

\* The same chart and the same events over the empty bar sequence.
InitEmpty == \E r \in Rects : NewChart(<<>>, 0, r)

SpecEmpty == InitEmpty /\ [][Next]_vars

\* ------------------------------------------------------------------------
\* The rendering specification: one render pass of a chart over any of
\* the bar sequences, in any of the zones, at any of the scales
\* ------------------------------------------------------------------------

\* A chart over bars whose scale a wheel event at the canvas's origin has
\* brought to sc (the offsets stay 0 there), not rendered since.
InitRender ==
    \E bars \in BarSeqs, zone \in Zones, sc \in Scales, r \in Rects :
        /\ data = bars
        /\ tz = zone
        /\ rect = r
        /\ scale = sc
        /\ offsetX = R(0)
        /\ offsetY = R(0)
        /\ isDragging = FALSE
        /\ dragStartX = R(0)
        /\ dragStartY = R(0)
        /\ minPrice = calculatePriceRange(bars).minPrice
        /\ maxPrice = calculatePriceRange(bars).maxPrice
        /\ ctxScale = sc
        /\ calls = <<>>
        /\ renderCount = 0
        /\ ev = Event("new", 0, 0, 0)
        /\ lastButton = "none"
        /\ dragOrigin = NoOrigin

RenderOnce ==
    /\ renderCount = 0
    /\ hostDrawChart

SpecRender == InitRender /\ [][RenderOnce]_vars

\* ------------------------------------------------------------------------
\* Properties of the viewport transform and of the gestures
\* ------------------------------------------------------------------------

\* The pointer of the last event, relative to the canvas.
LocalX == R(ev.x - rect[1])

LocalY == R(ev.y - rect[2])

\* C1: after construction and after any sequence of wheel, mousedown,
\* mousemove, mouseup and mouseleave events the scale is at least 1.
ScaleAtLeastOne == Le(R(1), scale)

\* A wheel event that would have taken the scale below 1 after an earlier
\* one had raised it.
ScaleAtLeastOne_Witness ==
    /\ ev.type = "wheel"
    /\ ev.deltaY < 0
    /\ scale = R(1)
    /\ ctxScale # R(1)

\* The render mapping of drawBars along one axis: the pixel of a logical
\* position, and the logical position shown at a pixel.
RenderPixel(position, sc, offset, extent) ==
    Sub(Mul(position, sc),
        Sub(offset, Div(Sub(Mul(R(extent), sc), R(extent)), R(2))))

RenderPosition(pixel, sc, offset, extent) ==
    Div(Add(pixel, Sub(offset, Div(Sub(Mul(R(extent), sc), R(extent)), R(2)))),
        sc)

\* C2: a wheel event at the point P of the canvas that changes the scale
\* leaves the logical location shown at P where it was: the location the
\* render mapping placed at P before the event is placed at P after it.
ZoomAnchoring ==
    [][(ev'.type = "wheel" /\ scale' # scale) =>
          /\ RenderPixel(RenderPosition(LocalX', scale, offsetX, CanvasWidth),
                         scale', offsetX', CanvasWidth) = LocalX'
          /\ RenderPixel(RenderPosition(LocalY', scale, offsetY, CanvasHeight),
                         scale', offsetY', CanvasHeight) = LocalY']_vars

\* C3: from a mousedown at A, after any number of mousemove events the last
\* of which is at B, with no wheel, mouseup or mouseleave in between, the
\* offsets have changed by exactly B - A and the scale has not changed.
PanIsAdditive ==
    dragOrigin.live =>
        /\ Sub(offsetX, dragOrigin.offsetX)
               = R(dragOrigin.toX - dragOrigin.x)
        /\ Sub(offsetY, dragOrigin.offsetY)
               = R(dragOrigin.toY - dragOrigin.y)
        /\ scale = dragOrigin.scale

\* A drag of two moves or more, at a scale above 1, that ends away from
\* where it began.
PanIsAdditive_Witness ==
    /\ dragOrigin.live
    /\ dragOrigin.moves >= 2
    /\ dragOrigin.toX # dragOrigin.x
    /\ Lt(R(1), scale)

\* C4: a mouseup or a mouseleave leaves the chart not dragging and changes
\* neither the transform nor the anchor; a second one in a row changes
\* nothing at all.
UpLeaveClearsDrag ==
    [][ev'.type \in {"mouseup", "mouseleave"} =>
          /\ ~isDragging'
          /\ UNCHANGED <<scale, offsetX, offsetY, dragStartX, dragStartY>>
          /\ ev.type \in {"mouseup", "mouseleave"} =>
                 UNCHANGED <<data, scale, offsetX, offsetY, isDragging,
                             dragStartX, dragStartY, minPrice, maxPrice,
                             ctxScale, calls, renderCount>>]_vars

\* A mouseleave handled after a drag had begun and had moved the chart.
UpLeaveClearsDrag_Witness ==
    /\ ev.type = "mouseleave"
    /\ ~isDragging
    /\ dragStartX # R(0)
    /\ offsetX # R(0)

\* C5: the chart starts idle; it is dragging exactly when the last of
\* mousedown, mouseup and mouseleave was a mousedown; wheel and mousemove
\* leave the flag alone, and mousedown sets the anchor to its pointer.
GestureStateMachine ==
    /\ [](isDragging <=> lastButton = "mousedown")
    /\ [][/\ ev'.type \in {"wheel", "mousemove"} => isDragging' = isDragging
          /\ ev'.type = "mousedown" =>
                 /\ dragStartX' = R(ev'.x)
                 /\ dragStartY' = R(ev'.y)]_vars

\* Still dragging after a wheel event that followed a mousedown and a move.
GestureStateMachine_Witness ==
    /\ ev.type = "wheel"
    /\ isDragging
    /\ lastButton = "mousedown"
    /\ offsetX # R(0)

\* C6: a mousemove while the chart is not dragging changes neither the
\* scale, the offsets nor the anchor, and renders nothing.
IdleMoveIsNoOp ==
    [][(ev'.type = "mousemove" /\ ~isDragging) =>
          UNCHANGED <<scale, offsetX, offsetY, dragStartX, dragStartY,
                      ctxScale, calls, renderCount>>]_vars

\* A mousemove handled while idle, away from the anchor of an earlier drag.
IdleMoveIsNoOp_Witness ==
    /\ ev.type = "mousemove"
    /\ ~isDragging
    /\ lastButton = "mouseup"
    /\ dragStartX # R(ev.x)

\* C7: a wheel event multiplies the scale by 1.1 when the delta is
\* positive and by 0.9 when it is negative, whatever the size of the
\* delta, and the result is floored at 1.
WheelFactorIsFixed ==
    [][ev'.type = "wheel" =>
          /\ ev'.deltaY > 0 => scale' = MathMax(R(1), Mul(scale, <<11, 10>>))
          /\ ev'.deltaY < 0 => scale' = MathMax(R(1), Mul(scale, <<9, 10>>))]_vars

\* Two wheel events of positive delta, the last of size 1.
WheelFactorIsFixed_Witness ==
    /\ ev.type = "wheel"
    /\ ev.deltaY = 1
    /\ scale = <<121, 100>>

\* What a sequence of draw calls paints on the surface when the context's
\* transform is a scaling by ctx: positions and sizes in device pixels.
Painted(drawn, ctx) ==
    [i \in 1..Len(drawn) |->
        [drawn[i] EXCEPT !.x = Mul(@, ctx), !.y = Mul(@, ctx),
                         !.w = Mul(@, ctx), !.h = Mul(@, ctx)]]

\* C8: what a render pass paints depends on the transform only, not on the
\* events that led to it.  The two histories compared are the one that
\* ends in the current state and the host's first drawChart, right after
\* construction: whenever the transform is the one of construction, the
\* last render pass has painted what that first pass paints.
RepaintDependsOnTransformOnly ==
    (renderCount > 0 /\ scale = R(1) /\ offsetX = R(0) /\ offsetY = R(0)) =>
        Painted(calls, ctxScale)
            = Painted(drawChart(ChartView(data, R(1), R(0), R(0), minPrice,
                                          maxPrice, tz)), R(1))

\* ------------------------------------------------------------------------
\* Properties of a render pass
\* ------------------------------------------------------------------------

\* The chart as the last render pass read it.
Shown == ChartView(data, scale, offsetX, offsetY, minPrice, maxPrice, tz)

\* The places in calls of the bars' rectangles, in drawing order.
FillPlaces ==
    SelectSeq([p \in 1..Len(calls) |-> p],
              LAMBDA p : calls[p].op = "fillRect")

\* The vertical position of a drawn rectangle before the offset and the
\* centering were subtracted.
UnshiftedY(call) == Add(call.y, EffOffsetY(Shown))

InHeight(v) == Le(R(0), v) /\ Le(v, ScaledHeight(Shown))

WellFormed(bar) == Le(bar.Low, bar.Close) /\ Le(bar.Close, bar.High)

\* C9 as stated: for every non-empty bar sequence with maxPrice > minPrice
\* the vertical position before offset and centering and the height of
\* every drawn bar lie in [0, canvas height * scale].
BarsWithinScaledHeight ==
    (renderCount > 0 /\ Len(data) > 0 /\ Lt(minPrice, maxPrice)) =>
        \A j \in 1..Len(FillPlaces) :
            /\ InHeight(UnshiftedY(calls[FillPlaces[j]]))
            /\ InHeight(calls[FillPlaces[j]].h)

\* C9, amended: the same for every drawn bar whose prices satisfy
\* Low <= Close <= High.
WellFormedBarsWithinScaledHeight ==
    (renderCount > 0 /\ Len(data) > 0 /\ Lt(minPrice, maxPrice)) =>
        /\ Len(FillPlaces) = Len(data)
        /\ \A j \in 1..Len(FillPlaces) :
               WellFormed(data[j]) =>
                   /\ InHeight(UnshiftedY(calls[FillPlaces[j]]))
                   /\ InHeight(calls[FillPlaces[j]].h)

\* A pass at a scale above 1 over three bars, one of which spans the whole
\* price range and so is as high as the scaled canvas.
WellFormedBarsWithinScaledHeight_Witness ==
    /\ renderCount > 0
    /\ Len(data) = 3
    /\ Lt(minPrice, maxPrice)
    /\ Lt(R(1), scale)
    /\ \A j \in 1..3 : WellFormed(data[j])
    /\ \E j \in 1..3 : calls[FillPlaces[j]].h = ScaledHeight(Shown)

\* The calendar date of the j-th bar (1-based) in the viewer's zone.
DateOf(j) == getDateFromBar(data[j].Time, tz)

\* The bars whose date differs from the date of the bar before.
DateChanges == {j \in 2..Len(data) : DateOf(j) # DateOf(j - 1)}

\* Whether the pass drew a label right after the j-th bar's rectangle.
LabelDrawnFor(j) ==
    /\ FillPlaces[j] < Len(calls)
    /\ calls[FillPlaces[j] + 1].op = "fillText"

\* C10: a render pass over a non-empty bar sequence draws a label for a
\* bar exactly when the bar is the first or its calendar date differs from
\* the date of the bar before; the label shows the bar's date, and there
\* are 1 + (number of adjacent pairs of different dates) labels.
LabelsAtDateChanges ==
    (renderCount > 0 /\ Len(data) > 0) =>
        /\ Len(FillPlaces) = Len(data)
        /\ \A j \in 1..Len(data) :
               /\ LabelDrawnFor(j) <=> (j = 1 \/ j \in DateChanges)
               /\ LabelDrawnFor(j) =>
                      calls[FillPlaces[j] + 1].text = DateOf(j)
        /\ Len(SelectSeq(calls, LAMBDA c : c.op = "fillText"))
               = 1 + Cardinality(DateChanges)

\* Bars at midnight and noon of one day and midnight of the next, seen
\* from UTC: two labels, under the first bar and the third.
LabelsAtDateChanges_Witness ==
    /\ renderCount > 0
    /\ tz = 0
    /\ Len(data) = 3
    /\ data[1].Time = Day1
    /\ data[2].Time = Day1 + 43200
    /\ data[3].Time = Day2
    /\ LabelDrawnFor(1)
    /\ ~LabelDrawnFor(2)
    /\ LabelDrawnFor(3)
    /\ calls[FillPlaces[3] + 1].text = <<16, 11, 2023>>
    /\ Len(SelectSeq(calls, LAMBDA c : c.op = "fillText")) = 2

\* ------------------------------------------------------------------------
\* Degenerate inputs, colours and label placement
\* ------------------------------------------------------------------------

FiniteCall(call) ==
    /\ IsFinite(call.x)
    /\ IsFinite(call.y)
    /\ IsFinite(call.w)
    /\ IsFinite(call.h)

\* C11: when maxPrice = minPrice the render pass draws every bar, and every
\* coordinate and size it passes to a draw call is finite: no NaN and no
\* Infinity.
DegenerateRangeDrawsFinite ==
    (renderCount > 0 /\ Len(data) > 0 /\ maxPrice = minPrice) =>
        /\ Len(FillPlaces) = Len(data)
        /\ \A p \in 1..Len(calls) : FiniteCall(calls[p])

\* C13: a bar is filled with the up colour exactly when Close > Open; a
\* bar with Close = Open, like one with Close < Open, is filled with the
\* down colour.
UpColourOnlyAboveOpen ==
    renderCount > 0 =>
        /\ Len(FillPlaces) = Len(data)
        /\ \A j \in 1..Len(data) :
               LET style == calls[FillPlaces[j]].style
               IN  /\ style = "green" <=> Lt(data[j].Open, data[j].Close)
                   /\ style = "red" <=> Le(data[j].Close, data[j].Open)

\* A pass that drew a bar with Close = Open in the down colour, next to a
\* bar in the up colour.
UpColourOnlyAboveOpen_Witness ==
    /\ renderCount > 0
    /\ Len(data) >= 2
    /\ \E j \in 1..Len(data) :
           /\ data[j].Close = data[j].Open
           /\ calls[FillPlaces[j]].style = "red"
    /\ \E j \in 1..Len(data) : calls[FillPlaces[j]].style = "green"

\* C14: every date label is anchored at the horizontal centre of its bar,
\* at every scale and offset: its x is the left edge of the bar's drawn
\* rectangle plus half the rectangle's width, and its y is the fixed inset
\* above the bottom edge of the canvas.
LabelsCentredOnBars ==
    renderCount > 0 =>
        \A p \in 2..Len(calls) :
            calls[p].op = "fillText" =>
                /\ calls[p - 1].op = "fillRect"
                /\ calls[p].x
                       = Add(calls[p - 1].x, Div(calls[p - 1].w, R(2)))
                /\ calls[p].y = R(CanvasHeight - 5)

\* C12: a chart constructed over the empty bar sequence handles every
\* sequence of renders, wheel events and pointer events: no value a handler
\* stores is NaN, and a render pass draws no bar and no label, only the
\* clear and the border.
EmptyChartDrawsOnlyFrame ==
    Len(data) = 0 =>
        /\ minPrice = Infinity
        /\ maxPrice = Neg(Infinity)
        /\ IsFinite(scale) /\ IsFinite(offsetX) /\ IsFinite(offsetY)
        /\ IsFinite(ctxScale)
        /\ renderCount = 0 => calls = <<>>
        /\ renderCount > 0 =>
               /\ Len(calls) = 2
               /\ calls[1].op = "clearRect"
               /\ calls[2].op = "strokeRect"

\* An empty chart that has rendered after a wheel event and a drag.
EmptyChartDrawsOnlyFrame_Witness ==
    /\ Len(data) = 0
    /\ ev.type = "mousemove"
    /\ isDragging
    /\ Lt(R(1), scale)
    /\ renderCount >= 2
    /\ Len(calls) = 2

\* ------------------------------------------------------------------------
\* Render passes and what the handlers touch
\* ------------------------------------------------------------------------

\* The draw calls of a pass are in order: the clear of the whole canvas,
\* the border of the whole canvas, then the bars by increasing index, each
\* rectangle followed at once by its label if it has one.
PassInOrder(drawn, c) ==
    /\ Len(drawn) >= 2
    /\ drawn[1] = DrawCall("clearRect", R(0), R(0), R(CanvasWidth),
                           R(CanvasHeight), "", <<>>)
    /\ drawn[2] = DrawCall("strokeRect", R(0), R(0), R(CanvasWidth),
                           R(CanvasHeight), "#000", <<>>)
    /\ \A p \in 3..Len(drawn) : drawn[p].op \in {"fillRect", "fillText"}
    /\ LET fills == SelectSeq([p \in 1..Len(drawn) |-> p],
                              LAMBDA p : drawn[p].op = "fillRect")
       IN  /\ Len(fills) = Len(c.data)
           /\ \A j \in 1..Len(fills) :
                  /\ drawn[fills[j]].x = BarX(c, j - 1)
                  /\ drawn[fills[j]].y = BarY(c, c.data[j])
           /\ \A p \in 3..Len(drawn) :
                  drawn[p].op = "fillText" =>
                      \E j \in 1..Len(fills) :
                          /\ fills[j] = p - 1
                          /\ drawn[p].x = LabelX(c, j - 1)

\* C15: every render pass clears the canvas, strokes the border and then
\* draws the bars and labels by increasing bar index; every wheel event
\* and every mousemove while dragging runs exactly one pass, over the
\* transform as the handler has updated it; mousedown, mouseup and
\* mouseleave run none.
RenderPassOrder ==
    [][/\ renderCount' \in {renderCount, renderCount + 1}
       /\ renderCount' = renderCount + 1 => PassInOrder(calls', Shown')
       /\ (ev'.type = "wheel" \/ (ev'.type = "mousemove" /\ isDragging)) =>
              renderCount' = renderCount + 1
       /\ ev'.type \in {"mousedown", "mouseup", "mouseleave"} =>
              UNCHANGED <<renderCount, calls>>]_vars

\* A pass run by a mousemove that moved the chart at a scale above 1.
RenderPassOrder_Witness ==
    /\ ev.type = "mousemove"
    /\ isDragging
    /\ dragOrigin.live
    /\ dragOrigin.toX # dragOrigin.x
    /\ Lt(R(1), scale)
    /\ PassInOrder(calls, Shown)

\* C16: only the wheel handler and a mousemove while dragging change the
\* transform: a render call, a mousedown, a mouseup and a mouseleave leave
\* the scale and the offsets as they are, and a render call also leaves
\* the dragging flag and the anchor as they are.
TransformOnlyByWheelAndDrag ==
    [][/\ ev'.type \in {"drawChart", "mousedown", "mouseup", "mouseleave"} =>
              UNCHANGED <<scale, offsetX, offsetY>>
       /\ ev'.type = "drawChart" =>
              UNCHANGED <<isDragging, dragStartX, dragStartY>>]_vars

\* A mousedown away from the last anchor, on a chart that a wheel event and
\* a drag have moved.
TransformOnlyByWheelAndDrag_Witness ==
    /\ ev.type = "mousedown"
    /\ Lt(R(1), scale)
    /\ offsetX # R(0)
    /\ dragOrigin.live
    /\ offsetX = dragOrigin.offsetX
    /\ renderCount = MaxRenders

\* C17: the cached price range never changes: in every state reached from
\* the construction of a chart over a non-empty bar sequence, minPrice is
\* the least Low and maxPrice the greatest High of the bars.
PriceRangeIsFixed ==
    Len(data) > 0 =>
        /\ \A j \in 1..Len(data) :
               Le(minPrice, data[j].Low) /\ Le(data[j].High, maxPrice)
        /\ \E j \in 1..Len(data) : minPrice = data[j].Low
        /\ \E j \in 1..Len(data) : maxPrice = data[j].High

\* The range after wheel events, a drag and render passes.
PriceRangeIsFixed_Witness ==
    /\ Len(data) = 3
    /\ renderCount = MaxRenders
    /\ ev.type = "mousemove"
    /\ Lt(R(1), scale)
    /\ minPrice = R(8)
    /\ maxPrice = R(12)

\* C18: a wheel event multiplies the context's scale by its factor exactly
\* when the scale after the floor is above 1, and nothing else changes the
\* context's scale; so the context's scale is never below the chart's
\* scale, which is never below 1.
ContextScaleAccumulates ==
    /\ [](Le(R(1), scale) /\ Le(scale, ctxScale))
    /\ [][/\ ev'.type # "wheel" => ctxScale' = ctxScale
          /\ (ev'.type = "wheel" /\ Lt(R(1), scale')) =>
                 ctxScale' = Mul(ctxScale,
                                 IF ev'.deltaY > 0 THEN <<11, 10>>
                                                   ELSE <<9, 10>>)
          /\ (ev'.type = "wheel" /\ ~Lt(R(1), scale')) =>
                 ctxScale' = ctxScale]_vars

\* After a wheel event that the floor has clamped, the context's scale is
\* above the chart's scale.
ContextScaleAccumulates_Witness ==
    /\ ev.type = "wheel"
    /\ ev.deltaY < 0
    /\ scale = R(1)
    /\ Lt(scale, ctxScale)

\* C19: at a scale of exactly 1, a wheel event whose delta is negative or
\* zero changes neither the scale, the offsets nor the context's scale,
\* wherever the pointer is; it only runs a render pass.
ZoomInAtFloorKeepsTransform ==
    [][(ev'.type = "wheel" /\ ev'.deltaY <= 0 /\ scale = R(1)) =>
          /\ UNCHANGED <<scale, offsetX, offsetY, ctxScale, isDragging,
                         dragStartX, dragStartY>>
          /\ renderCount' = renderCount + 1]_vars

\* A wheel event of delta zero at scale 1, on a chart a drag has moved.
ZoomInAtFloorKeepsTransform_Witness ==
    /\ ev.type = "wheel"
    /\ ev.deltaY = 0
    /\ scale = R(1)
    /\ ctxScale = R(1)
    /\ offsetX # R(0)
    /\ offsetY # R(0)

\* The horizontal and the vertical move of the pointer in a mousemove,
\* from the anchor to the event's position.
MoveDX == Sub(R(ev'.x), dragStartX)

MoveDY == Sub(R(ev'.y), dragStartY)

\* C20: a mousemove while dragging that moves the pointer by (dx, dy)
\* shifts the computed position of every bar by (-dx, -dy) and the x of
\* every label by -dx, at every scale: the content moves against the
\* pointer.  The positions before the move are those a render pass
\* computes from the chart as it is before the move.
PanMovesContentAgainstPointer ==
    [][(ev'.type = "mousemove" /\ isDragging) =>
          LET before == drawChart(Shown)
          IN  /\ Len(calls') = Len(before)
              /\ \A p \in 3..Len(before) :
                     /\ calls'[p].op = before[p].op
                     /\ calls'[p].x = Sub(before[p].x, MoveDX)
                     /\ calls'[p].w = before[p].w
                     /\ calls'[p].h = before[p].h
                     /\ calls'[p].op = "fillRect" =>
                            calls'[p].y = Sub(before[p].y, MoveDY)
                     /\ calls'[p].op = "fillText" =>
                            calls'[p].y = before[p].y]_vars

\* A drag at a scale above 1 that has moved the pointer in both directions.
PanMovesContentAgainstPointer_Witness ==
    /\ ev.type = "mousemove"
    /\ isDragging
    /\ dragOrigin.live
    /\ dragOrigin.moves >= 1
    /\ dragOrigin.toX # dragOrigin.x
    /\ dragOrigin.toY # dragOrigin.y
    /\ Lt(R(1), scale)
    /\ Sub(offsetX, dragOrigin.offsetX) = R(dragOrigin.toX - dragOrigin.x)

====
